---- MODULE Spec2Model ----
(***************************************************************************)
(* Model of the MPX transcoder (src/packer.py) and of the translation      *)
(* extraction / substitution tool (src/er.py).                             *)
(*                                                                         *)
(* Bytes are integers 0..255, byte strings are sequences of bytes, Python  *)
(* str values are sequences of code points.  A function of the program     *)
(* that can raise returns a record [ok |-> TRUE, ...] or                   *)
(* [ok |-> FALSE, err |-> "<which error>"].                                *)
(***************************************************************************)
EXTENDS Integers, Sequences, FiniteSets, TLC

VARIABLES
    pc,          \* position of the run: which step of the tool chain comes next
    data,        \* the .mpx file given to unpack
    mpx,         \* the document (the .json file) between unpack and pack
    output,      \* the .mpx file written by pack
    mpx2,        \* the document obtained by unpacking the packed file
    err,         \* the error that ended the run, "" if none
    raw,         \* cipher: a raw text byte
    plain,       \* cipher: the byte after the decode rule
    reenc,       \* cipher: the byte after the encode rule
    text_data,   \* er.py: the text_data of the .json files, one entry per file
    text,        \* er.py: the translation list (translated.json)
    results,     \* er.py: the records written by extract_strings
    replaced,    \* er.py: the text_data written by replace_strings, one per file
    trans_index  \* er.py: number of translations consumed

vars == <<pc, data, mpx, output, mpx2, err, raw, plain, reenc,
          text_data, text, results, replaced, trans_index>>

packerVars == <<data, mpx, output, mpx2>>
cipherVars == <<raw, plain, reenc>>
erVars == <<text_data, text, results, replaced, trans_index>>

None == "None"

(***************************************************************************)
(* Sequence helpers (Python list / bytes primitives).                      *)
(***************************************************************************)
RECURSIVE Concat(_)
Concat(ss) == IF ss = <<>> THEN <<>> ELSE Head(ss) \o Concat(Tail(ss))

RECURSIVE Join(_, _)
Join(ss, sep) ==
    IF ss = <<>> THEN <<>>
    ELSE IF Len(ss) = 1 THEN ss[1]
    ELSE ss[1] \o sep \o Join(Tail(ss), sep)

\* positions (0-based, ascending) of the elements of s that equal x
Positions(s, x) ==
    LET RECURSIVE go(_)
        go(i) == IF i > Len(s) THEN <<>>
                 ELSE IF s[i] = x THEN <<i - 1>> \o go(i + 1) ELSE go(i + 1)
    IN  go(1)

\* str.split(sep) for a one-character separator
RECURSIVE Split(_, _)
Split(s, sep) ==
    IF \A i \in 1..Len(s) : s[i] # sep THEN <<s>>
    ELSE LET i == CHOOSE i \in 1..Len(s) :
                      s[i] = sep /\ \A j \in 1..(i - 1) : s[j] # sep
         IN  <<SubSeq(s, 1, i - 1)>> \o Split(SubSeq(s, i + 1, Len(s)), sep)

\* the set of sequences over S of length at most n
SeqUpTo(S, n) == UNION { [1..k -> S] : k \in 0..n }

(***************************************************************************)
(* Text cipher.                                                            *)
(***************************************************************************)
KEY == 36          \* 0x24
LF == 10           \* 0x0A, the line break
SEMI == 59         \* ';'
PERCENT == 37      \* '%'

RECURSIVE XorBits(_, _, _)
XorBits(a, b, n) ==
    IF n = 0 THEN 0
    ELSE (((a % 2) + (b % 2)) % 2) + (2 * XorBits(a \div 2, b \div 2, n - 1))

Xor(a, b) == XorBits(a, b, 8)

\* the decode rule as a variant that forgets the line-break convention
DecodeByteNoBreak(b) == Xor(b, KEY)

\* packer.py:143  0x0A if (b ^ 0x24) == 0 else (b ^ 0x24)
DecodeByte(b) == IF Xor(b, KEY) = 0 THEN LF ELSE Xor(b, KEY)

\* packer.py:211  0x24 if b == 0x0A else (b ^ 0x24)
EncodeByte(c) == IF c = LF THEN KEY ELSE Xor(c, KEY)

Decrypt(bytes) == [i \in 1..Len(bytes) |-> DecodeByte(bytes[i])]
Encrypt(bytes) == [i \in 1..Len(bytes) |-> EncodeByte(bytes[i])]

(***************************************************************************)
(* The CP932 codec of Python, on the part of its table the model draws     *)
(* from: the single-byte range and a sample of double-byte characters.     *)
(* 0x87 0x90 and 0x81 0xE0 both decode to U+2252; U+2252 encodes to        *)
(* 0x81 0xE0.  A lead byte without a mapped trail byte is a decode error,  *)
(* a code point outside the table is an encode error.                      *)
(***************************************************************************)
Cp932Pairs ==
    { <<130, 160, 12354>>,     \* 82 A0  U+3042
      <<129, 224, 8786>>,      \* 81 E0  U+2252
      <<135, 144, 8786>>,      \* 87 90  U+2252 (NEC duplicate)
      <<129, 121, 12304>>,     \* 81 79  U+3010
      <<129, 122, 12305>> }    \* 81 7A  U+3011

Cp932Canonical == { p \in Cp932Pairs : p # <<135, 144, 8786>> }

IsLeadByte(b) == (b >= 129 /\ b <= 159) \/ (b >= 224 /\ b <= 252)

Cp932Single(b) ==
    IF b <= 128 THEN b
    ELSE IF b = 160 THEN 63728
    ELSE IF b >= 253 THEN 63729 + (b - 253)
    ELSE 65377 + (b - 161)

RECURSIVE Cp932Decode(_)
Cp932Decode(bytes) ==
    IF bytes = <<>> THEN [ok |-> TRUE, val |-> <<>>]
    ELSE IF ~IsLeadByte(bytes[1]) THEN
        LET r == Cp932Decode(Tail(bytes))
        IN  IF r.ok THEN [ok |-> TRUE, val |-> <<Cp932Single(bytes[1])>> \o r.val]
            ELSE r
    ELSE IF Len(bytes) >= 2
            /\ \E p \in Cp932Pairs : p[1] = bytes[1] /\ p[2] = bytes[2] THEN
        LET p == CHOOSE p \in Cp932Pairs : p[1] = bytes[1] /\ p[2] = bytes[2]
            r == Cp932Decode(SubSeq(bytes, 3, Len(bytes)))
        IN  IF r.ok THEN [ok |-> TRUE, val |-> <<p[3]>> \o r.val] ELSE r
    ELSE [ok |-> FALSE, err |-> "UnicodeDecodeError"]

Cp932EncodeChar(c) ==
    IF c <= 128 THEN [ok |-> TRUE, val |-> <<c>>]
    ELSE IF c = 63728 THEN [ok |-> TRUE, val |-> <<160>>]
    ELSE IF c >= 63729 /\ c <= 63731 THEN [ok |-> TRUE, val |-> <<253 + (c - 63729)>>]
    ELSE IF c >= 65377 /\ c <= 65439 THEN [ok |-> TRUE, val |-> <<161 + (c - 65377)>>]
    ELSE IF \E p \in Cp932Canonical : p[3] = c THEN
        LET p == CHOOSE p \in Cp932Canonical : p[3] = c
        IN  [ok |-> TRUE, val |-> <<p[1], p[2]>>]
    ELSE [ok |-> FALSE, err |-> "UnicodeEncodeError"]

RECURSIVE Cp932Encode(_)
Cp932Encode(str) ==
    IF str = <<>> THEN [ok |-> TRUE, val |-> <<>>]
    ELSE LET h == Cp932EncodeChar(str[1])
             r == Cp932Encode(Tail(str))
         IN  IF ~h.ok THEN h
             ELSE IF ~r.ok THEN r
             ELSE [ok |-> TRUE, val |-> h.val \o r.val]

\* bytes.decode("ascii") / str.encode("ascii")
AsciiDecode(bytes) ==
    IF \A i \in 1..Len(bytes) : bytes[i] < 128
    THEN [ok |-> TRUE, val |-> bytes]
    ELSE [ok |-> FALSE, err |-> "UnicodeDecodeError"]

AsciiEncode(str) ==
    IF \A i \in 1..Len(str) : str[i] < 128
    THEN [ok |-> TRUE, val |-> str]
    ELSE [ok |-> FALSE, err |-> "UnicodeEncodeError"]

(***************************************************************************)
(* split_text and its inverse in pack.                                     *)
(***************************************************************************)
\* the letters matched by [kowe] under (?i)
MarkerLetters == {107, 111, 119, 101, 75, 79, 87, 69}

IsMarkerAt(s, i) ==
    i + 1 <= Len(s) /\ s[i] = PERCENT /\ s[i + 1] \in MarkerLetters

\* a tokenizer that splits at the markers without keeping them
RECURSIVE ReSplitDropMarkers(_)
ReSplitDropMarkers(part) ==
    IF \A i \in 1..Len(part) : ~IsMarkerAt(part, i) THEN <<part>>
    ELSE LET i == CHOOSE i \in 1..Len(part) :
                      IsMarkerAt(part, i) /\ \A j \in 1..(i - 1) : ~IsMarkerAt(part, j)
         IN  <<SubSeq(part, 1, i - 1)>>
                 \o ReSplitDropMarkers(SubSeq(part, i + 2, Len(part)))

\* packer.py:61  re.split(r'(?i)(%[kowe])', part)
RECURSIVE ReSplit(_)
ReSplit(part) ==
    IF \A i \in 1..Len(part) : ~IsMarkerAt(part, i) THEN <<part>>
    ELSE LET i == CHOOSE i \in 1..Len(part) :
                      IsMarkerAt(part, i) /\ \A j \in 1..(i - 1) : ~IsMarkerAt(part, j)
         IN  <<SubSeq(part, 1, i - 1), SubSeq(part, i, i + 1)>>
                 \o ReSplit(SubSeq(part, i + 2, Len(part)))

\* packer.py:56-64
split_text(str) ==
    LET lines == Split(str, LF)
        SplitLine(line) ==
            LET parts == Split(line, SEMI)
            IN  [p \in 1..Len(parts) |-> ReSplit(parts[p])]
    IN  [l \in 1..Len(lines) |-> SplitLine(lines[l])]

\* packer.py:192-199
JoinText(td) ==
    LET JoinLine(line) == Join([p \in 1..Len(line) |-> Concat(line[p])], <<SEMI>>)
    IN  Join([l \in 1..Len(td) |-> JoinLine(td[l])], <<LF>>)

(***************************************************************************)
(* The rest-strings table.                                                 *)
(***************************************************************************)
\* packer.py:149-160: the split of the trailing bytes; cur is the string being
\* read, acc the strings read so far
RECURSIVE RestScan(_, _, _)
RestScan(bytes, cur, acc) ==
    IF bytes = <<>> THEN [cur |-> cur, strings |-> acc]
    ELSE IF bytes[1] = 0 THEN
        IF cur # <<>> THEN RestScan(Tail(bytes), <<>>, Append(acc, cur))
        ELSE RestScan(Tail(bytes), cur, acc)
    ELSE RestScan(Tail(bytes), Append(cur, bytes[1]), acc)

\* packer.py:155, 160  the decode of each string and the final assert
RestResult(rest_bytes, strings, cur) ==
    IF \E i \in 1..Len(strings) : ~AsciiDecode(strings[i]).ok
    THEN [ok |-> FALSE, err |-> "UnicodeDecodeError"]
    ELSE IF cur # <<>> THEN [ok |-> FALSE, err |-> "AssertionError"]
    ELSE [ok |-> TRUE, val |-> strings]

\* packer.py:149-162
DecodeRest(rest_bytes) ==
    LET r == RestScan(rest_bytes, <<>>, <<>>)
    IN  RestResult(rest_bytes, r.strings, r.cur)

\* packer.py:251-254
EncodeRest(rest_strings) ==
    IF \E i \in 1..Len(rest_strings) : ~AsciiEncode(rest_strings[i]).ok
    THEN [ok |-> FALSE, err |-> "UnicodeEncodeError"]
    ELSE [ok |-> TRUE,
          val |-> Concat([i \in 1..Len(rest_strings) |-> rest_strings[i] \o <<0>>])]

(***************************************************************************)
(* The opcode table and the instructions.                                  *)
(* An instruction is [op, value, fix_offset]: op the hex string of the     *)
(* opcode bytes, value the operands as [t |-> "u16" or "u8", n |-> number] *)
(* (the strings "u16:n" / "u8:n" of the document), fix_offset a function   *)
(* from operand index (0-based) to line index, <<>> when the key is absent.*)
(***************************************************************************)
Opcodes ==
    {"FE 01", "FE 03", "FE 06", "00", "01", "02", "03", "04", "05", "09",
     "08 01", "FF 01", "FF 03", "1B 01"}

\* packer.py:14-53  operand layout of each opcode
OPCODES_MAP(op) ==
    CASE op \in {"FE 01", "FE 03", "08 01", "FF 01", "FF 03"} -> <<"u16", "u16">>
      [] op = "FE 06" -> <<"u16">>
      [] op \in {"01", "02", "03", "04"} -> <<"u16", "u16">>
      [] op = "05" -> <<"u16", "u16", "u8">>
      [] op = "09" -> <<"u16", "u8", "u8", "u16", "u8", "u16">>
      [] OTHER -> <<>>

\* bytearray.fromhex(op["op"])
FromHex(op) ==
    CASE op = "FE 01" -> <<254, 1>>
      [] op = "FE 03" -> <<254, 3>>
      [] op = "FE 06" -> <<254, 6>>
      [] op = "00" -> <<0>>
      [] op = "01" -> <<1>>
      [] op = "02" -> <<2>>
      [] op = "03" -> <<3>>
      [] op = "04" -> <<4>>
      [] op = "05" -> <<5>>
      [] op = "09" -> <<9>>
      [] op = "08 01" -> <<8, 1>>
      [] op = "FF 01" -> <<255, 1>>
      [] op = "FF 03" -> <<255, 3>>
      [] op = "1B 01" -> <<27, 1>>

\* translate_lib.de on a width-tagged value string
de(v) == v.n

\* struct.pack("<H", num), struct.pack("<B", num)
PackU16(num) ==
    IF num < 0 \/ num > 65535 THEN [ok |-> FALSE, err |-> "struct.error"]
    ELSE [ok |-> TRUE, val |-> <<num % 256, num \div 256>>]

PackU8(num) ==
    IF num < 0 \/ num > 255 THEN [ok |-> FALSE, err |-> "struct.error"]
    ELSE [ok |-> TRUE, val |-> <<num>>]

\* packer.py:106-133  the operand that holds a text offset, -1 if the opcode has none
FixOperand(op) ==
    CASE op \in {"FE 01", "FE 03", "FF 03", "08 01", "FF 01"} -> 1
      [] op = "FE 06" -> 0
      [] op = "09" -> 5
      [] OTHER -> -1

\* a lookup that takes the operand itself for the marker position
ByteOffsetToLineIndexOffByOne(newline_pos, off) ==
    IF \E idx \in 1..Len(newline_pos) : newline_pos[idx] = off + 1
    THEN [ok |-> TRUE,
          val |-> (CHOOSE idx \in 1..Len(newline_pos) : newline_pos[idx] = off + 1) - 1]
    ELSE [ok |-> FALSE, err |-> "ValueError: no line index"]

\* packer.py:96-100
byte_offset_to_line_index(newline_pos, off) ==
    IF \E idx \in 1..Len(newline_pos) : newline_pos[idx] = off
    THEN [ok |-> TRUE,
          val |-> (CHOOSE idx \in 1..Len(newline_pos) : newline_pos[idx] = off) - 1]
    ELSE [ok |-> FALSE, err |-> "ValueError: no line index"]

(***************************************************************************)
(* Files.  A file is [sig, text_offset, text_size, index, body]: the       *)
(* header fields, the instructions parse_data decodes from the bytes       *)
(* [8, text_offset), and the bytes from text_offset on.  Every file has its *)
(* 8 header bytes, so the length test of packer.py:71 never fails.         *)
(***************************************************************************)
SigBytes(sig) == IF sig = "Mp17" THEN <<77, 112, 49, 55>> ELSE <<77, 112, 49, 54>>

\* the bytes of one instruction with its stored operand values
OpBytes(op) ==
    FromHex(op.op) \o
    Concat([i \in 1..Len(op.value) |->
               IF op.value[i].t = "u16" THEN PackU16(op.value[i].n).val
               ELSE PackU8(op.value[i].n).val])

IndexBytes(index) == Concat([i \in 1..Len(index) |-> OpBytes(index[i])])

FileBytes(f) ==
    SigBytes(f.sig) \o PackU16(f.text_offset).val \o PackU16(f.text_size).val
        \o IndexBytes(f.index) \o f.body

Min(a, b) == IF a < b THEN a ELSE b

\* packer.py:88  data[text_offset : text_offset + text_size]
RawTextBytes(f) == SubSeq(f.body, 1, Min(f.text_size, Len(f.body)))

\* packer.py:149  data[text_offset + text_size :]
RestBytes(f) == SubSeq(f.body, f.text_size + 1, Len(f.body))

\* packer.py:91-94
MarkerPositions(raw_text_bytes) ==
    LET RECURSIVE go(_)
        go(i) == IF i > Len(raw_text_bytes) THEN <<>>
                 ELSE IF Xor(raw_text_bytes[i], KEY) = 0
                      THEN <<i - 1>> \o go(i + 1) ELSE go(i + 1)
    IN  go(1)

(***************************************************************************)
(* read_mpx_file.                                                          *)
(***************************************************************************)
\* packer.py:104-136  the fix_offset of one instruction
FixInfo(op, newline_pos) ==
    LET k == FixOperand(op.op)
    IN  IF k = -1 THEN [ok |-> TRUE, val |-> <<>>]
        ELSE LET r == byte_offset_to_line_index(newline_pos, de(op.value[k + 1]) - 1)
             IN  IF r.ok THEN [ok |-> TRUE, val |-> (k :> r.val)] ELSE r

\* packer.py:67-163
read_mpx_file(f) ==
    IF f.sig # "Mp17" THEN [ok |-> FALSE, err |-> "exit(1): invalid MPX file"]
    ELSE
    LET raw_text_bytes == RawTextBytes(f)
        newline_pos == MarkerPositions(raw_text_bytes)
        fixes == [i \in 1..Len(f.index) |-> FixInfo(f.index[i], newline_pos)]
        dec == Cp932Decode(Decrypt(raw_text_bytes))
        rest == DecodeRest(RestBytes(f))
    IN  IF \E i \in 1..Len(fixes) : ~fixes[i].ok
        THEN [ok |-> FALSE, err |-> "ValueError: no line index"]
        ELSE IF ~dec.ok THEN dec
        ELSE IF ~rest.ok THEN rest
        ELSE [ok |-> TRUE,
              val |-> [sig |-> f.sig,
                       text_offset |-> f.text_offset,
                       text_size |-> f.text_size,
                       index_data |-> [i \in 1..Len(f.index) |->
                                          [op |-> f.index[i].op,
                                           value |-> f.index[i].value,
                                           fix_offset |-> fixes[i].val]],
                       text_data |-> split_text(dec.val),
                       rest_strings |-> rest.val]]

(***************************************************************************)
(* pack.                                                                   *)
(***************************************************************************)
\* a resolver that falls back to the last line break when the line is missing
ResolveOffsetClamped(newline_pos, line_idx) ==
    IF Len(newline_pos) = 0 THEN [ok |-> TRUE, val |-> 0]
    ELSE IF line_idx >= Len(newline_pos)
    THEN [ok |-> TRUE, val |-> newline_pos[Len(newline_pos)] + 1]
    ELSE [ok |-> TRUE, val |-> newline_pos[line_idx + 1] + 1]

\* packer.py:230-233
ResolveOffset(newline_pos, line_idx) ==
    IF line_idx >= Len(newline_pos)
    THEN [ok |-> FALSE, err |-> "ValueError: insufficient lines"]
    ELSE [ok |-> TRUE, val |-> newline_pos[line_idx + 1] + 1]

\* packer.py:224-242  the number written for operand idx (0-based) of op
OperandNum(op, idx, newline_pos) ==
    LET v == op.value[idx + 1]
    IN  IF v.t = "u16" THEN
            IF idx \in DOMAIN op.fix_offset
            THEN ResolveOffset(newline_pos, op.fix_offset[idx])
            ELSE [ok |-> TRUE, val |-> de(v)]
        ELSE IF v.t = "u8" THEN [ok |-> TRUE, val |-> de(v)]
        ELSE [ok |-> FALSE, err |-> "ValueError: unknown field type"]

OperandBytes(op, idx, newline_pos) ==
    LET r == OperandNum(op, idx, newline_pos)
    IN  IF ~r.ok THEN r
        ELSE IF op.value[idx + 1].t = "u16" THEN PackU16(r.val)
        ELSE PackU8(r.val)

\* packer.py:220-244  the bytes of one instruction and the operand values in them
PackOp(op, newline_pos) ==
    LET n == Len(op.value)
        bs == [i \in 1..n |-> OperandBytes(op, i - 1, newline_pos)]
    IN  IF \E i \in 1..n : ~bs[i].ok
        THEN [ok |-> FALSE,
              err |-> bs[CHOOSE i \in 1..n :
                             ~bs[i].ok /\ \A j \in 1..(i - 1) : bs[j].ok].err]
        ELSE [ok |-> TRUE,
              bytes |-> FromHex(op.op) \o Concat([i \in 1..n |-> bs[i].val]),
              written |-> [op |-> op.op,
                           value |-> [i \in 1..n |->
                                         [t |-> op.value[i].t,
                                          n |-> OperandNum(op, i - 1, newline_pos).val]]]]

\* packer.py:186-274  one document; the result is the file written: its bytes, and
\* the same file by header fields, instructions and body
pack(m) ==
    LET enc == Cp932Encode(JoinText(m.text_data))
    IN  IF ~enc.ok THEN enc
        ELSE
        LET text_data_bytes == enc.val
            newline_pos == Positions(text_data_bytes, LF)
            encrypted_text_data == Encrypt(text_data_bytes)
            n == Len(m.index_data)
            ops == [i \in 1..n |-> PackOp(m.index_data[i], newline_pos)]
            rest == EncodeRest(m.rest_strings)
        IN  IF \E i \in 1..n : ~ops[i].ok
            THEN [ok |-> FALSE,
                  err |-> ops[CHOOSE i \in 1..n :
                                  ~ops[i].ok /\ \A j \in 1..(i - 1) : ops[j].ok].err]
            ELSE IF ~rest.ok THEN rest
            ELSE
            LET index_data_bytes == Concat([i \in 1..n |-> ops[i].bytes])
                new_text_offset == 8 + Len(index_data_bytes)
                new_text_size == Len(encrypted_text_data)
            IN  IF ~PackU16(new_text_offset).ok \/ ~PackU16(new_text_size).ok
                THEN [ok |-> FALSE, err |-> "struct.error"]
                ELSE [ok |-> TRUE,
                      val |-> [sig |-> m.sig,
                               text_offset |-> new_text_offset,
                               text_size |-> new_text_size,
                               index |-> [i \in 1..n |-> ops[i].written],
                               body |-> encrypted_text_data \o rest.val,
                               bytes |-> SigBytes(m.sig)
                                           \o PackU16(new_text_offset).val
                                           \o PackU16(new_text_size).val
                                           \o index_data_bytes
                                           \o encrypted_text_data
                                           \o rest.val]]

(***************************************************************************)
(* The tool chain on one file: unpack, an edit of the document, pack, and  *)
(* unpack of the packed file.                                              *)
(***************************************************************************)
\* packer.py:166-176
ReadMpxFile ==
    /\ pc = "unpack"
    /\ LET r == read_mpx_file(data)
       IN  IF r.ok
           THEN /\ mpx' = r.val
                /\ pc' = "unpacked"
                /\ err' = ""
           ELSE /\ mpx' = None
                /\ pc' = "unpack_failed"
                /\ err' = r.err
    /\ UNCHANGED <<data, output, mpx2, cipherVars, erVars>>

\* the strings an edit of the document writes into a token: a letter, the empty
\* string, a double-byte character, a line break, a NUL character, and a character
\* CP932 cannot encode
Translations == { <<66>>, <<>>, <<12354>>, <<LF>>, <<0>>, <<20320>> }

\* an edit of the document between unpack and pack (the substitution of er.py:119-128,
\* or an edit by hand): one token of text_data is replaced
ReplaceToken ==
    /\ pc = "unpacked"
    /\ \E l \in 1..Len(mpx.text_data) :
       \E p \in 1..Len(mpx.text_data[l]) :
       \E t \in 1..Len(mpx.text_data[l][p]) :
       \E new \in Translations :
           /\ new # mpx.text_data[l][p][t]
           /\ mpx' = [mpx EXCEPT !.text_data[l][p][t] = new]
    /\ pc' = "edited"
    /\ UNCHANGED <<data, output, mpx2, err, cipherVars, erVars>>

\* an edit of the document that removes one line of text_data
DeleteLine ==
    /\ pc = "unpacked"
    /\ \E l \in 1..Len(mpx.text_data) :
           mpx' = [mpx EXCEPT !.text_data =
                      SubSeq(mpx.text_data, 1, l - 1)
                          \o SubSeq(mpx.text_data, l + 1, Len(mpx.text_data))]
    /\ pc' = "edited"
    /\ UNCHANGED <<data, output, mpx2, err, cipherVars, erVars>>

\* packer.py:179-274
Pack ==
    /\ pc \in {"unpacked", "edited"}
    /\ LET r == pack(mpx)
       IN  IF r.ok
           THEN /\ output' = r.val
                /\ pc' = "packed"
                /\ err' = ""
           ELSE /\ output' = None
                /\ pc' = "pack_failed"
                /\ err' = r.err
    /\ UNCHANGED <<data, mpx, mpx2, cipherVars, erVars>>

\* packer.py:166-176 on the file pack wrote
Reread ==
    /\ pc = "packed"
    /\ LET r == read_mpx_file(output)
       IN  IF r.ok
           THEN /\ mpx2' = r.val
                /\ pc' = "reread"
                /\ err' = ""
           ELSE /\ mpx2' = None
                /\ pc' = "reread_failed"
                /\ err' = r.err
    /\ UNCHANGED <<data, mpx, output, cipherVars, erVars>>

(***************************************************************************)
(* Input files.                                                            *)
(***************************************************************************)
MaxBody == 3       \* longest text section plus rest table, in bytes
MaxText == 4       \* longest text section of the text-only files, in bytes

\* an instruction of the given opcode, laid out by the opcode table, every u16
\* operand holding n and every u8 operand holding 1
Instr(op, n) ==
    [op |-> op,
     value |-> [i \in 1..Len(OPCODES_MAP(op)) |->
                   [t |-> OPCODES_MAP(op)[i],
                    n |-> IF OPCODES_MAP(op)[i] = "u16" THEN n ELSE 1]]]

InstrSet(ops, maxn) == { Instr(op, n) : op \in ops, n \in 0..maxn }

MakeFile(sig, index, body, text_size) ==
    [sig |-> sig,
     text_offset |-> 8 + Len(IndexBytes(index)),
     text_size |-> text_size,
     index |-> index,
     body |-> body]

\* raw bytes: 0x00 (the terminator of the rest table, '$' in the text), 0x24 (the
\* line-break marker), 0x2E (0x0A in the text), 0x65 ('A' in the text, 'e' in the
\* rest table)
BodyBytes == {0, 36, 46, 101}

IndexChoices(maxn) ==
    {<<>>}
        \cup { <<i>> : i \in InstrSet({"FE 06", "09", "01", "FF 01"}, maxn) }
        \cup { <<i, j>> : i \in InstrSet({"FE 06"}, maxn), j \in InstrSet({"FE 03"}, maxn) }

Files ==
    { MakeFile("Mp17", ix, b, ts) :
          ix \in IndexChoices(MaxBody + 1),
          b \in SeqUpTo(BodyBytes, MaxBody),
          ts \in 0..MaxBody }

TypeInit ==
    /\ mpx = None /\ output = None /\ mpx2 = None /\ err = ""
    /\ raw = 0 /\ plain = None /\ reenc = None
    /\ text_data = <<>> /\ text = <<>> /\ results = None /\ replaced = None
    /\ trans_index = 0

Init ==
    /\ pc = "unpack"
    /\ data \in { f \in Files : f.text_size <= Len(f.body) }
    /\ TypeInit

Next == ReadMpxFile \/ ReplaceToken \/ DeleteLine \/ Pack \/ Reread

Spec == Init /\ [][Next]_vars

(***************************************************************************)
(* Unpack alone, over every opcode of the table.                           *)
(***************************************************************************)
UnpackIndexChoices(maxn) ==
    { <<i>> : i \in InstrSet(Opcodes, maxn) }
        \cup { <<i, j>> : i \in InstrSet({"FE 01", "FE 03", "FE 06", "09",
                                           "08 01", "FF 01", "FF 03"}, maxn),
                          j \in InstrSet({"01", "FE 06"}, maxn) }

UnpackFiles ==
    { MakeFile(sig, ix, b, Len(b)) :
          sig \in {"Mp17", "Mp16"},
          ix \in UnpackIndexChoices(MaxBody + 1),
          b \in SeqUpTo({36, 101}, MaxBody) }

InitUnpack ==
    /\ pc = "unpack"
    /\ data \in UnpackFiles
    /\ TypeInit

NextUnpack == ReadMpxFile

SpecUnpack == InitUnpack /\ [][NextUnpack]_vars

(***************************************************************************)
(* Properties of the tool chain.                                           *)
(***************************************************************************)
\* the document exactly as unpack produced it
Unmodified == read_mpx_file(data).ok /\ mpx = read_mpx_file(data).val

\* the line-break markers of the text section of a file
Markers(f) == Positions(RawTextBytes(f), KEY)

\* the fixups of a document: <<instruction, operand index>>
Fixups(m) ==
    { <<i, k>> \in (1..Len(m.index_data)) \X (0..5) :
          k \in DOMAIN m.index_data[i].fix_offset }

\* C1: packing the unmodified document of a valid file reproduces the bytes of
\* the file.
C1_RoundTrip ==
    (pc = "packed" /\ Unmodified) => output.bytes = FileBytes(data)

\* C7: packing the unmodified document reproduces the bytes of the trailing
\* table of the file (each of its strings being terminated by a null byte).
C7_RestExact ==
    (pc = "packed" /\ Unmodified) => RestBytes(output) = RestBytes(data)

C3_OffsetStable ==
    (pc = "packed" /\ Len(mpx.text_data) = Len(read_mpx_file(data).val.text_data)) =>
        \A x \in Fixups(mpx) :
            LET i == mpx.index_data[x[1]].fix_offset[x[2]]
            IN  /\ i < Len(Markers(output))
                /\ output.index[x[1]].value[x[2] + 1].n = Markers(output)[i + 1] + 1

\* C10: unpacking a file that pack wrote succeeds and gives every fixed-up
\* operand the line index it had in the document.
C10_FixupsAgree ==
    pc \in {"reread", "reread_failed"} =>
        /\ pc = "reread"
        /\ \A i \in 1..Len(mpx.index_data) :
               mpx2.index_data[i].fix_offset = mpx.index_data[i].fix_offset

\* the opcodes that carry a text offset, and the operand that holds it
OffsetBearing == {"FE 01", "FE 03", "FE 06", "09", "08 01", "FF 01", "FF 03"}
OffsetOperandOf(op) == IF op = "FE 06" THEN 0 ELSE IF op = "09" THEN 5 ELSE 1

\* C9: unpack records, for the offset operand of every offset-bearing instruction,
\* the index of the marker at position operand - 1; it fails, leaving no document,
\* if there is no such marker; other instructions get no fix_offset.
C9_LineIndex ==
    (pc \in {"unpacked", "unpack_failed"} /\ data.sig = "Mp17") =>
        LET ms == Markers(data)
            off(i) == data.index[i].value[OffsetOperandOf(data.index[i].op) + 1].n - 1
            bearing == { i \in 1..Len(data.index) : data.index[i].op \in OffsetBearing }
        IN  /\ (\E i \in bearing : \A j \in 1..Len(ms) : ms[j] # off(i)) =>
                   (pc = "unpack_failed" /\ mpx = None)
            /\ (pc = "unpacked") =>
                   \A i \in 1..Len(data.index) :
                       IF i \in bearing
                       THEN \E j \in 1..Len(ms) :
                                /\ ms[j] = off(i)
                                /\ mpx.index_data[i].fix_offset
                                       = (OffsetOperandOf(data.index[i].op) :> (j - 1))
                       ELSE mpx.index_data[i].fix_offset = <<>>

\* C9 witness: a document whose second instruction resolved to line index 1 and
\* whose other instruction has no fixup.
C9_Witness ==
    /\ pc = "unpacked"
    /\ Len(mpx.index_data) = 2
    /\ mpx.index_data[1].fix_offset = (5 :> 1)
    /\ mpx.index_data[2].op = "01"
    /\ mpx.index_data[2].fix_offset = <<>>

(***************************************************************************)
(* Text-only files: every arrangement of line breaks, delimiters and       *)
(* markers in a short text.                                                *)
(***************************************************************************)
\* raw bytes of line break, ';', '%', 'k', 'E' and 'A'
TextBytes == {36, 31, 1, 79, 97, 101}

InitText ==
    /\ pc = "unpack"
    /\ data \in { MakeFile("Mp17", <<>>, b, Len(b)) : b \in SeqUpTo(TextBytes, MaxText) }
    /\ TypeInit

NextText == ReadMpxFile \/ Pack

SpecText == InitText /\ [][NextText]_vars

\* the decrypted text of the input file
DecryptedText == Cp932Decode(Decrypt(RawTextBytes(data))).val

\* C6: the tokens of split_text, joined as pack joins them, are the decrypted
\* text again, and the text section pack writes decrypts to the same text.
C6_TokenReconstruction ==
    /\ (pc = "unpacked") => JoinText(mpx.text_data) = DecryptedText
    /\ (pc = "packed") =>
           Cp932Decode(Decrypt(RawTextBytes(output))).val = DecryptedText

\* C6 witness: a packed text with a segment made of two adjacent markers, which
\* therefore start and end the line.
C6_Witness ==
    /\ pc = "packed"
    /\ \E l \in 1..Len(mpx.text_data) :
           mpx.text_data[l] = << << <<>>, <<37, 107>>, <<>>, <<37, 69>>, <<>> >> >>

(***************************************************************************)
(* The cipher on one byte.                                                 *)
(***************************************************************************)
Bytes == 0..255

\* packer.py:143 on one byte
DecodeStep ==
    /\ pc = "decode"
    /\ plain' = DecodeByte(raw)
    /\ pc' = "encode"
    /\ UNCHANGED <<raw, reenc, err, packerVars, erVars>>

\* packer.py:211 on one byte
EncodeStep ==
    /\ pc = "encode"
    /\ reenc' = EncodeByte(plain)
    /\ pc' = "done"
    /\ UNCHANGED <<raw, plain, err, packerVars, erVars>>

InitCipher ==
    /\ pc = "decode"
    /\ raw \in Bytes
    /\ plain = None /\ reenc = None
    /\ data = None /\ mpx = None /\ output = None /\ mpx2 = None /\ err = ""
    /\ text_data = <<>> /\ text = <<>> /\ results = None /\ replaced = None
    /\ trans_index = 0

NextCipher == DecodeStep \/ EncodeStep

SpecCipher == InitCipher /\ [][NextCipher]_vars

\* C8 as claimed: decode then encode returns every raw byte.
C8_ByteRoundTrip ==
    (pc = "done") =>
        /\ (Xor(raw, KEY) = 0) => (plain = LF /\ reenc = KEY)
        /\ (Xor(raw, KEY) # 0) => (plain = Xor(raw, KEY) /\ reenc = raw)

\* C8 as amended: decode then encode returns every raw byte but 0x2E; 0x2E decodes
\* to 0x0A, the value of the line break, and re-encodes to the key byte 0x24.
C8_ByteRoundTripBut2E ==
    (pc = "done") =>
        /\ (Xor(raw, KEY) = 0) => (plain = LF /\ reenc = KEY)
        /\ (Xor(raw, KEY) # 0) => plain = Xor(raw, KEY)
        /\ (raw # 46) => reenc = raw
        /\ (raw = 46) => (plain = LF /\ reenc = KEY)

\* C8 witness: the byte 0x2E has been decoded and encoded again.
C8_Witness == pc = "done" /\ raw = 46 /\ reenc = KEY

(***************************************************************************)
(* er.py: extraction and substitution of the translatable strings.         *)
(* A record of raw.json / translated.json is [has_name, name, message];    *)
(* has_name says whether the record has the key "name"; the key "path",    *)
(* which substitution never reads, is left out.                            *)
(***************************************************************************)
LBRACKET == 12304      \* U+3010
RBRACKET == 12305      \* U+3011
Whitespace == {32, 12288}

RECURSIVE LStrip(_)
LStrip(str) ==
    IF str # <<>> /\ str[1] \in Whitespace THEN LStrip(Tail(str)) ELSE str

RECURSIVE RStrip(_)
RStrip(str) ==
    IF str # <<>> /\ str[Len(str)] \in Whitespace
    THEN RStrip(SubSeq(str, 1, Len(str) - 1)) ELSE str

\* er.py:11-19
should_ignore(str) ==
    LET t == RStrip(LStrip(str))
    IN  t = <<>> \/ \A i \in 1..Len(t) : t[i] < 128

\* er.py:47-48, 114-115  re.match(r'^【(.+?)】(.*)$', s) on a string without line break
Match(str) ==
    IF Len(str) >= 3 /\ str[1] = LBRACKET /\ \E j \in 3..Len(str) : str[j] = RBRACKET
    THEN LET j == CHOOSE j \in 3..Len(str) :
                      str[j] = RBRACKET /\ \A i \in 3..(j - 1) : str[i] # RBRACKET
         IN  [matched |-> TRUE,
              name |-> SubSeq(str, 2, j - 1),
              message |-> SubSeq(str, j + 1, Len(str))]
    ELSE [matched |-> FALSE, name |-> <<>>, message |-> <<>>]

\* the strings of a text_data in depth-first order
Flatten(td) == Concat([l \in 1..Len(td) |-> Concat(td[l])])

\* er.py:42-65  the records one string contributes
ExtractOne(node) ==
    IF should_ignore(node) THEN <<>>
    ELSE IF Match(node).matched THEN
        IF Match(node).message # <<>>
        THEN << [has_name |-> TRUE, name |-> Match(node).name,
                 message |-> Match(node).message] >>
        ELSE <<>>
    ELSE << [has_name |-> FALSE, name |-> <<>>, message |-> node] >>

\* er.py:38-68
dfs_traverse(td) ==
    LET nodes == Flatten(td)
    IN  Concat([i \in 1..Len(nodes) |-> ExtractOne(nodes[i])])

\* er.py:104-128 over the strings in depth-first order: the new strings, the new
\* trans_index, and whether a translation lacked the key "name"
RECURSIVE ReplaceNodes(_, _, _)
ReplaceNodes(nodes, translations, index) ==
    IF nodes = <<>> THEN [ok |-> TRUE, out |-> <<>>, index |-> index]
    ELSE
    LET item == nodes[1]
        keep == should_ignore(item) \/ index >= Len(translations)
        translation == translations[index + 1]
        rest == ReplaceNodes(Tail(nodes), translations, IF keep THEN index ELSE index + 1)
    IN  IF keep THEN
            IF rest.ok THEN [rest EXCEPT !.out = <<item>> \o rest.out] ELSE rest
        ELSE IF Match(item).matched THEN
            IF ~translation.has_name THEN [ok |-> FALSE, out |-> <<>>, index |-> index + 1]
            ELSE IF rest.ok
            THEN [rest EXCEPT !.out = << <<LBRACKET>> \o translation.name \o <<RBRACKET>>
                                             \o translation.message >> \o rest.out]
            ELSE rest
        ELSE IF rest.ok THEN [rest EXCEPT !.out = <<translation.message>> \o rest.out]
             ELSE rest

\* the strings put back into the nesting of td
Unflatten(td, nodes) ==
    LET before(l, p) ==
            Len(Flatten(SubSeq(td, 1, l - 1))) + Len(Concat(SubSeq(td[l], 1, p - 1)))
    IN  [l \in 1..Len(td) |->
            [p \in 1..Len(td[l]) |->
                [t \in 1..Len(td[l][p]) |-> nodes[before(l, p) + t]]]]

\* er.py:85-148  one file
replace_in_file(td, translations, index) ==
    LET r == ReplaceNodes(Flatten(td), translations, index)
    IN  IF r.ok THEN [ok |-> TRUE, out |-> Unflatten(td, r.out), index |-> r.index]
        ELSE [ok |-> FALSE, out |-> <<>>, index |-> r.index]

\* er.py:151-162  the files in order; written holds the files written so far
RECURSIVE ReplaceFiles(_, _, _, _)
ReplaceFiles(files, translations, index, written) ==
    IF files = <<>> THEN
        IF index # Len(translations)
        THEN [ok |-> FALSE, err |-> "exit(1): translations left over",
              out |-> written, index |-> index]
        ELSE [ok |-> TRUE, err |-> "", out |-> written, index |-> index]
    ELSE LET r == replace_in_file(files[1], translations, index)
         IN  IF ~r.ok
             THEN [ok |-> FALSE, err |-> "KeyError: name", out |-> written, index |-> r.index]
             ELSE ReplaceFiles(Tail(files), translations, r.index, Append(written, r.out))

replace_strings(files, translations) == ReplaceFiles(files, translations, 0, <<>>)

\* er.py:73-80
ExtractStrings ==
    /\ pc = "extract"
    /\ results' = Concat([f \in 1..Len(text_data) |-> dfs_traverse(text_data[f])])
    /\ pc' = "translate"
    /\ UNCHANGED <<text_data, text, replaced, trans_index, err, packerVars, cipherVars>>

\* a translated record: the name and the message replaced by their translations
Translated(rec) ==
    [has_name |-> rec.has_name,
     name |-> IF rec.has_name THEN <<78>> ELSE <<>>,
     message |-> <<12354, 77>>]

\* the translator returns translated.json: the records as extracted, or each of them
\* translated, possibly with the last record lost or a record added
Translate ==
    /\ pc = "translate"
    /\ \E base \in { results, [i \in 1..Len(results) |-> Translated(results[i])] } :
           text' \in { base,
                       SubSeq(base, 1, Len(base) - 1),
                       Append(base, [has_name |-> FALSE, name |-> <<>>, message |-> <<77>>]) }
    /\ pc' = "replace"
    /\ UNCHANGED <<text_data, results, replaced, trans_index, err, packerVars, cipherVars>>

\* er.py:151-162
ReplaceStrings ==
    /\ pc = "replace"
    /\ LET r == replace_strings(text_data, text)
       IN  /\ replaced' = r.out
           /\ trans_index' = r.index
           /\ err' = r.err
           /\ pc' = IF r.ok THEN "replaced" ELSE "replace_failed"
    /\ UNCHANGED <<text_data, text, results, packerVars, cipherVars>>

MaxStrings == 3     \* most strings in the text_data of the files together

\* an ASCII string, a blank string, a plain message, a message with a name, and a
\* name without a message
ErStrings ==
    { <<97>>, <<32>>, <<12354>>,
      <<LBRACKET, 12354, RBRACKET, 12354>>,
      <<LBRACKET, 12354, RBRACKET>> }

\* the files that hold the strings ss: one file with one segment, one file with a
\* line per string, or the first string in a file of its own
ErFiles(ss) ==
    { << << <<ss>> >> >>,
      << [l \in 1..Len(ss) |-> << <<ss[l]>> >>] >> }
        \cup IF Len(ss) >= 2
             THEN { << << << <<ss[1]>> >> >>, << << Tail(ss) >> >> >> }
             ELSE {}

InitEr ==
    /\ pc = "extract"
    /\ \E ss \in SeqUpTo(ErStrings, MaxStrings) : text_data \in ErFiles(ss)
    /\ text = <<>> /\ results = None /\ replaced = None /\ trans_index = 0
    /\ data = None /\ mpx = None /\ output = None /\ mpx2 = None /\ err = ""
    /\ raw = 0 /\ plain = None /\ reenc = None

NextEr == ExtractStrings \/ Translate \/ ReplaceStrings

SpecEr == InitEr /\ [][NextEr]_vars

\* the number of non-ignorable strings of the files
NonIgnorable ==
    Len(SelectSeq(Concat([f \in 1..Len(text_data) |-> Flatten(text_data[f])]),
                  LAMBDA str : ~should_ignore(str)))

\* C4: substituting the extracted records back, unchanged, succeeds, uses every
\* record and leaves the text_data of every file unchanged.
C4_SameOrder ==
    (pc \in {"replaced", "replace_failed"} /\ text = results) =>
        /\ pc = "replaced"
        /\ trans_index = Len(results)
        /\ replaced = text_data

\* C5: replace_strings ends in an error whenever the number of translations
\* differs from the number of non-ignorable strings, and succeeds only when every
\* translation was used and every non-ignorable string got one.
C5_OneToOne ==
    (pc \in {"replaced", "replace_failed"}) =>
        /\ (Len(text) # NonIgnorable) => pc = "replace_failed"
        /\ (pc = "replaced") => (trans_index = Len(text) /\ trans_index = NonIgnorable)

====
